---------------------------- MODULE Spec2Model ----------------------------
(***************************************************************************)
(* TodoMVC on axum + htmx + maud (src/src/main.rs).                        *)
(*                                                                         *)
(* The durable state is the session store: one optional State record per   *)
(* session.  Every handler is State::read, a mutation of the checked-out   *)
(* copy, State::write and the rendering of the response fragments.  The    *)
(* browser is modelled by the regions the fragments are swapped into.      *)
(***************************************************************************)
EXTENDS Integers, Sequences, FiniteSets, TLC

\* ------------------------------------------------------------- bounds
MaxTodos == 2
NumIds == 2

Ids == 1 .. NumIds
Sessions == {"s1", "s2"}
Descs == {"", "a"}
Requests == {"r1", "r2"}

VARIABLES
    store,      \* session id -> Option<State>: <<>> is None, <<state>> is Some(state)
    dom,        \* what the browser of the client displays
    resp,       \* the last request handled and its response
    inflight    \* requests between their State::read and their State::write

vars == <<store, dom, resp, inflight>>

\* ------------------------------------------------------------- helpers
\* bool as maud renders it, and as serde parses it from a form
BoolStr(b) == IF b THEN "true" ELSE "false"
ParseBool(s) == s = "true"

\* ------------------------------------------------------------- state
Filter == {"All", "Active", "Completed"}

Filter_to_string(filter) ==
    CASE filter = "All" -> "All"
      [] filter = "Active" -> "Active"
      [] filter = "Completed" -> "Completed"

State_default == [todos |-> <<>>, filter |-> "All"]

\* session.get(KEY).await.unwrap_or(None).unwrap_or_default():
\* a failed load is turned into None, and None into the default state
State_read(st, session, loadOk) ==
    IF loadOk /\ st[session] # <<>> THEN st[session][1] ELSE State_default

\* State_write with one record shared by all sessions, the fault
\* C10_LastWriteWins excludes
State_write_shared(st, session, state) == [s \in DOMAIN st |-> <<state>>]

\* session.insert(KEY, self): the whole state replaces the session's record
State_write(st, session, state) == [st EXCEPT ![session] = <<state>>]

\* An attribute of a rendered element is <<>> when the element does not carry
\* it and <<v>> when it carries it with the value v.
\* maud name=(value): the attribute is always written, with the value's text
AttrValue(v) == <<v>>

\* maud name[cond]: the attribute is written, without a value, iff cond
AttrToggle(cond) == IF cond THEN <<"">> ELSE <<>>

\* ------------------------------------------------------------- rendering
TodoPlaceholder_render(placeholder) ==
    IF placeholder = "Extend"
    THEN <<[tag |-> "input", name |-> "next-todo", value |-> "Extend",
            id |-> "", oob |-> FALSE]>>
    ELSE <<[tag |-> "input", name |-> "next-todo", value |-> "FullPayload",
            id |-> "todo-list", oob |-> TRUE]>>

Todo_render(todo) ==
    <<[tag |-> "li", todo_id |-> todo.id, class_completed |-> todo.completed,
       toggle_checked |-> AttrToggle(todo.completed),
       description |-> todo.description, value |-> BoolStr(todo.completed),
       oob |-> FALSE]>>

RECURSIVE RenderTodos(_, _)
RenderTodos(todos, i) ==
    IF i > Len(todos) THEN <<>> ELSE Todo_render(todos[i]) \o RenderTodos(todos, i + 1)

\* List::from with the Active and the Completed selections exchanged, the
\* fault C12_FilterSelectsByFlag excludes
List_from_swapped(state) ==
    [oob |-> TRUE,
     all_completed |-> \A i \in 1 .. Len(state.todos) : state.todos[i].completed,
     todos |-> CASE state.filter = "All" -> state.todos
                 [] state.filter = "Active" ->
                        SelectSeq(state.todos, LAMBDA todo : todo.completed)
                 [] state.filter = "Completed" ->
                        SelectSeq(state.todos, LAMBDA todo : ~todo.completed)]

List_from(state) ==
    [oob |-> TRUE,
     all_completed |-> \A i \in 1 .. Len(state.todos) : state.todos[i].completed,
     todos |-> CASE state.filter = "All" -> state.todos
                 [] state.filter = "Active" ->
                        SelectSeq(state.todos, LAMBDA todo : ~todo.completed)
                 [] state.filter = "Completed" ->
                        SelectSeq(state.todos, LAMBDA todo : todo.completed)]

List_render(list) ==
    IF list.todos = <<>>
    THEN TodoPlaceholder_render("FullPayload")
    ELSE <<[tag |-> "main", id |-> "todo-list", oob |-> list.oob,
            toggle_all_checked |-> AttrValue(BoolStr(list.all_completed)),
            children |-> RenderTodos(list.todos, 1) \o TodoPlaceholder_render("Extend")]>>

\* Footer::from counting over the tasks the selected filter shows instead of
\* over state.todos, the fault C11_FooterCountsWholeList excludes
Footer_from_visible(state) ==
    [num_active |-> Len(SelectSeq(List_from(state).todos, LAMBDA todo : ~todo.completed)),
     num_completed |-> Len(SelectSeq(List_from(state).todos, LAMBDA todo : todo.completed)),
     current_filter |-> state.filter,
     oob |-> TRUE]

Footer_from(state) ==
    [num_active |-> Len(SelectSeq(state.todos, LAMBDA todo : ~todo.completed)),
     num_completed |-> Len(SelectSeq(state.todos, LAMBDA todo : todo.completed)),
     current_filter |-> state.filter,
     oob |-> TRUE]

Footer_render(footer) ==
    <<[tag |-> "footer", id |-> "footer", oob |-> footer.oob,
       todo_count |-> footer.num_active,
       plural |-> footer.num_active # 1,
       selected |-> {Filter_to_string(f) : f \in {g \in Filter : footer.current_filter = g}},
       clear_completed |-> footer.num_completed > 0]>>

\* add_todo putting the new task in front of the stored ones, the fault
\* C16_OrderIsCreationOrder excludes
add_todo_front(state, new_todo, id) ==
    LET pushed == [state EXCEPT !.todos =
                      <<[completed |-> FALSE,
                         description |-> new_todo.todo,
                         id |-> id]>> \o @]
    IN [state |-> pushed,
        write |-> TRUE,
        frags |-> IF new_todo.placeholder = "FullPayload"
                  THEN List_render([List_from(pushed) EXCEPT !.oob = FALSE])
                       \o Footer_render(Footer_from(pushed))
                  ELSE Todo_render(pushed.todos[Len(pushed.todos)])
                       \o TodoPlaceholder_render("Extend")]

\* ------------------------------------------------------------- handlers
\* Each handler is a function of the state State::read returned and of the
\* request's input.  It yields the mutated copy, whether State::write is
\* called on it, and the fragments of the response body in order.
\* POST /todo; id is the value rand::random() returns
add_todo(state, new_todo, id) ==
    LET pushed == [state EXCEPT !.todos =
                      Append(@, [completed |-> FALSE,
                                 description |-> new_todo.todo,
                                 id |-> id])]
    IN [state |-> pushed,
        write |-> TRUE,
        frags |-> IF new_todo.placeholder = "FullPayload"
                  THEN List_render([List_from(pushed) EXCEPT !.oob = FALSE])
                       \o Footer_render(Footer_from(pushed))
                  ELSE Todo_render(pushed.todos[Len(pushed.todos)])
                       \o TodoPlaceholder_render("Extend")]

\* DELETE /todo/:id
delete_todo(state, id) ==
    LET retained == [state EXCEPT !.todos =
                        SelectSeq(@, LAMBDA todo : todo.id # id)]
    IN [state |-> retained,
        write |-> TRUE,
        frags |-> Footer_render(Footer_from(retained))]

\* iter_mut().find(|todo| todo.id == id): the first position holding the id, 0 if none
find(todos, id) ==
    IF \E i \in 1 .. Len(todos) : todos[i].id = id
    THEN CHOOSE i \in 1 .. Len(todos) :
            /\ todos[i].id = id
            /\ \A j \in 1 .. i - 1 : todos[j].id # id
    ELSE 0

\* patch_todo flipping the stored flag without reading the posted value,
\* the fault C9_ToggleNegatesPosted excludes
patch_todo_flip(state, id, body) ==
    LET i == find(state.todos, id)
        toggled == IF body.completed # <<>>
                   THEN [state.todos[i] EXCEPT !.completed = ~@]
                   ELSE state.todos[i]
        edited == IF body.desc # <<>>
                  THEN [toggled EXCEPT !.description = body.desc[1]]
                  ELSE toggled
        patched == [state EXCEPT !.todos[i] = edited]
    IN IF i # 0
       THEN [state |-> patched,
             write |-> TRUE,
             frags |-> Todo_render(edited) \o Footer_render(Footer_from(patched))]
       ELSE [state |-> state, write |-> FALSE, frags |-> <<>>]

\* patch_todo calling State::write also when no task carries the id, the
\* fault C18_PatchAbsentIsNoOp excludes
patch_todo_saves(state, id, body) ==
    LET i == find(state.todos, id)
        toggled == IF body.completed # <<>>
                   THEN [state.todos[i] EXCEPT !.completed = ~body.completed[1]]
                   ELSE state.todos[i]
        edited == IF body.desc # <<>>
                  THEN [toggled EXCEPT !.description = body.desc[1]]
                  ELSE toggled
        patched == [state EXCEPT !.todos[i] = edited]
    IN IF i # 0
       THEN [state |-> patched,
             write |-> TRUE,
             frags |-> Todo_render(edited) \o Footer_render(Footer_from(patched))]
       ELSE [state |-> state, write |-> TRUE, frags |-> <<>>]

\* PATCH /todo/:id; body.completed and body.desc are Option values: <<>> or <<v>>
patch_todo(state, id, body) ==
    LET i == find(state.todos, id)
        toggled == IF body.completed # <<>>
                   THEN [state.todos[i] EXCEPT !.completed = ~body.completed[1]]
                   ELSE state.todos[i]
        edited == IF body.desc # <<>>
                  THEN [toggled EXCEPT !.description = body.desc[1]]
                  ELSE toggled
        patched == [state EXCEPT !.todos[i] = edited]
    IN IF i # 0
       THEN [state |-> patched,
             write |-> TRUE,
             frags |-> Todo_render(edited) \o Footer_render(Footer_from(patched))]
       ELSE [state |-> state, write |-> FALSE, frags |-> <<>>]

\* toggle_todos negating each task's own flag, the fault
\* C13_ToggleAllSetsEvery excludes
toggle_todos_each(state) ==
    LET toggled == [state EXCEPT !.todos =
                       [i \in 1 .. Len(state.todos) |->
                           [state.todos[i] EXCEPT !.completed = ~@]]]
    IN [state |-> toggled,
        write |-> TRUE,
        frags |-> List_render(List_from(toggled)) \o Footer_render(Footer_from(toggled))]

\* POST /toggle-todos
toggle_todos(state) ==
    LET all_completed == \A i \in 1 .. Len(state.todos) : state.todos[i].completed
        toggled == [state EXCEPT !.todos =
                       [i \in 1 .. Len(state.todos) |->
                           [state.todos[i] EXCEPT !.completed = ~all_completed]]]
    IN [state |-> toggled,
        write |-> TRUE,
        frags |-> List_render(List_from(toggled)) \o Footer_render(Footer_from(toggled))]

\* select_filter answering with the footer Footer::from builds, in
\* out-of-band mode, the fault C20_FooterOobButOnOwnRequests excludes
select_filter_oob(state, filter) ==
    LET selected == [state EXCEPT !.filter = filter]
    IN [state |-> selected,
        write |-> TRUE,
        frags |-> List_render(List_from(selected))
                  \o Footer_render(Footer_from(selected))]

\* select_filter answering with the list and the footer of the state it
\* loaded, before the submitted filter is set, the fault
\* C15_SelectChangesOnlyFilter excludes
select_filter_stale(state, filter) ==
    LET selected == [state EXCEPT !.filter = filter]
    IN [state |-> selected,
        write |-> TRUE,
        frags |-> List_render(List_from(state))
                  \o Footer_render([Footer_from(state) EXCEPT !.oob = FALSE])]

\* POST /select
select_filter(state, filter) ==
    LET selected == [state EXCEPT !.filter = filter]
    IN [state |-> selected,
        write |-> TRUE,
        frags |-> List_render(List_from(selected))
                  \o Footer_render([Footer_from(selected) EXCEPT !.oob = FALSE])]

\* clear_completed retaining the completed tasks instead of the active ones,
\* the fault C14_ClearKeepsActive excludes
clear_completed_inverted(state) ==
    LET retained == [state EXCEPT !.todos =
                        SelectSeq(@, LAMBDA todo : todo.completed)]
    IN [state |-> retained,
        write |-> TRUE,
        frags |-> List_render(List_from(retained))
                  \o Footer_render([Footer_from(retained) EXCEPT !.oob = FALSE])]

\* POST /clear-completed
clear_completed(state) ==
    LET retained == [state EXCEPT !.todos =
                        SelectSeq(@, LAMBDA todo : ~todo.completed)]
    IN [state |-> retained,
        write |-> TRUE,
        frags |-> List_render(List_from(retained))
                  \o Footer_render([Footer_from(retained) EXCEPT !.oob = FALSE])]

\* GET /: the page around the list and the footer; no State::write
handler(state) ==
    [state |-> state,
     write |-> FALSE,
     frags |-> List_render(List_from(state)) \o Footer_render(Footer_from(state))]

\* ------------------------------------------------------------- requests
\* The session layer around a handler: the response of a handler whose
\* State::write panics (insert(..).unwrap()) is an error without fragments,
\* and the store keeps what it held.
Respond(session, name, input, res, loadOk, saveOk) ==
    LET panic == res.write /\ ~saveOk
    IN /\ store' = IF res.write /\ saveOk
                   THEN State_write(store, session, res.state)
                   ELSE store
       /\ resp' = [handler |-> name, session |-> session, input |-> input,
                   load_failed |-> ~loadOk, save_failed |-> panic,
                   status |-> IF panic THEN "panic" ELSE "ok",
                   frags |-> IF panic THEN <<>> ELSE res.frags]

NewTodo == [todo : Descs, placeholder : {"Extend", "FullPayload"}]
PatchTodo == [completed : {<<>>, <<TRUE>>, <<FALSE>>},
              desc : {<<>>} \cup {<<d>> : d \in Descs}]

Loaded(session) == State_read(store, session, TRUE)

AddTodo(session, new_todo, id, loadOk, saveOk) ==
    LET state == State_read(store, session, loadOk)
    IN /\ Len(state.todos) < MaxTodos
       /\ Respond(session, "add_todo", [new_todo |-> new_todo, id |-> id],
                  add_todo(state, new_todo, id), loadOk, saveOk)

DeleteTodo(session, id, loadOk, saveOk) ==
    Respond(session, "delete_todo", [id |-> id],
            delete_todo(State_read(store, session, loadOk), id), loadOk, saveOk)

PatchTodoReq(session, id, body, loadOk, saveOk) ==
    Respond(session, "patch_todo", [id |-> id, body |-> body],
            patch_todo(State_read(store, session, loadOk), id, body), loadOk, saveOk)

ToggleTodos(session, loadOk, saveOk) ==
    Respond(session, "toggle_todos", [none |-> TRUE],
            toggle_todos(State_read(store, session, loadOk)), loadOk, saveOk)

SelectFilter(session, filter, loadOk, saveOk) ==
    Respond(session, "select_filter", [filter |-> filter],
            select_filter(State_read(store, session, loadOk), filter), loadOk, saveOk)

ClearCompleted(session, loadOk, saveOk) ==
    Respond(session, "clear_completed", [none |-> TRUE],
            clear_completed(State_read(store, session, loadOk)), loadOk, saveOk)

Handler(session, loadOk) ==
    Respond(session, "handler", [none |-> TRUE],
            handler(State_read(store, session, loadOk)), loadOk, TRUE)

\* ------------------------------------------------------------- the page
\* GET / of a session without a record: the page the browser starts from
PageOf(frags) == [todo_list |-> frags[1], footer |-> frags[2]]

Init ==
    /\ store = [s \in Sessions |-> <<>>]
    /\ dom = PageOf(handler(State_default).frags)
    /\ resp = [handler |-> "handler", session |-> "s1", input |-> [none |-> TRUE],
               load_failed |-> FALSE, save_failed |-> FALSE,
               status |-> "ok", frags |-> handler(State_default).frags]
    /\ inflight = [r \in Requests |-> <<>>]

\* ------------------------------------------------------------- Spec
\* Any request a client can send to one session, one at a time, the store
\* never failing.
ReqAdd == \E new_todo \in NewTodo, id \in Ids :
              /\ AddTodo("s1", new_todo, id, TRUE, TRUE)
              /\ UNCHANGED <<dom, inflight>>
ReqDelete == \E id \in Ids :
                 /\ DeleteTodo("s1", id, TRUE, TRUE)
                 /\ UNCHANGED <<dom, inflight>>
ReqPatch == \E id \in Ids, body \in PatchTodo :
                /\ PatchTodoReq("s1", id, body, TRUE, TRUE)
                /\ UNCHANGED <<dom, inflight>>
ReqToggleAll == /\ ToggleTodos("s1", TRUE, TRUE)
                /\ UNCHANGED <<dom, inflight>>
ReqSelect == \E filter \in Filter :
                 /\ SelectFilter("s1", filter, TRUE, TRUE)
                 /\ UNCHANGED <<dom, inflight>>
ReqClear == /\ ClearCompleted("s1", TRUE, TRUE)
            /\ UNCHANGED <<dom, inflight>>
ReqPage == /\ Handler("s1", TRUE)
           /\ UNCHANGED <<dom, inflight>>

Next ==
    \/ ReqAdd
    \/ ReqDelete
    \/ ReqPatch
    \/ ReqToggleAll
    \/ ReqSelect
    \/ ReqClear
    \/ ReqPage

Spec == Init /\ [][Next]_vars

\* ------------------------------------------------------------- the browser
\* htmx applies a response to the page: every fragment with hx-swap-oob
\* replaces the element of its id, and the rest of the body replaces the
\* target of the element that sent the request (hx-swap="outerHTML").
RECURSIVE SwapOob(_, _, _)
SwapOob(d, frags, i) ==
    IF i > Len(frags) THEN d
    ELSE IF frags[i].oob /\ frags[i].tag \in {"main", "input"}
         THEN SwapOob([d EXCEPT !.todo_list = frags[i]], frags, i + 1)
    ELSE IF frags[i].oob /\ frags[i].tag = "footer"
         THEN SwapOob([d EXCEPT !.footer = frags[i]], frags, i + 1)
    ELSE SwapOob(d, frags, i + 1)

Primary(frags) == SelectSeq(frags, LAMBDA f : ~f.oob)

\* the li elements the page shows, in document order
DomItems(d) ==
    IF d.todo_list.tag = "main"
    THEN SelectSeq(d.todo_list.children, LAMBDA e : e.tag = "li")
    ELSE <<>>

\* the value of input[name='next-todo'], which hx-include posts with a new todo
DomNextTodo(d) ==
    IF d.todo_list.tag = "main"
    THEN d.todo_list.children[Len(d.todo_list.children)].value
    ELSE d.todo_list.value

\* the first element of id todo-<id>, which hx-target="#todo-<id>" selects
DomFind(items, id) ==
    CHOOSE i \in 1 .. Len(items) :
        /\ items[i].todo_id = id
        /\ \A j \in 1 .. i - 1 : items[j].todo_id # id

\* target input[name='next-todo'] (main.rs line 100)
SwapNextTodo(d, frags) ==
    LET o == SwapOob(d, frags, 1)
        p == Primary(frags)
    IN IF d.todo_list.tag = "main"
       THEN IF o.todo_list = d.todo_list
            THEN [o EXCEPT !.todo_list.children =
                     SubSeq(@, 1, Len(@) - 1) \o p]
            ELSE o
       ELSE IF p # <<>> /\ o.todo_list = d.todo_list
            THEN [o EXCEPT !.todo_list = p[1]]
            ELSE o

\* target #todo-<id> (main.rs line 282)
SwapTodo(d, id, frags) ==
    LET o == SwapOob(d, frags, 1)
        c == d.todo_list.children
        i == DomFind(c, id)
    IN IF o.todo_list = d.todo_list
       THEN [o EXCEPT !.todo_list.children =
                SubSeq(c, 1, i - 1) \o Primary(frags) \o SubSeq(c, i + 1, Len(c))]
       ELSE o

\* target footer.footer (main.rs line 369)
SwapFooter(d, frags) ==
    LET o == SwapOob(d, frags, 1)
        p == Primary(frags)
    IN IF p # <<>> THEN [o EXCEPT !.footer = p[1]] ELSE o

\* ------------------------------------------------------------- SpecClient
\* One browser tab on session s1: every request is sent from an element of
\* the page with the values the page holds, and every response is applied.
\* The ids drawn here are ids that no stored or displayed task carries; the
\* draws that collide are part of Spec.
InUse(id) ==
    \/ \E i \in 1 .. Len(Loaded("s1").todos) : Loaded("s1").todos[i].id = id
    \/ \E i \in 1 .. Len(DomItems(dom)) : DomItems(dom)[i].todo_id = id

ClientAdd ==
    \E todo \in Descs \ {""}, id \in Ids :
        /\ ~InUse(id)
        /\ Len(DomItems(dom)) < MaxTodos
        /\ AddTodo("s1", [todo |-> todo, placeholder |-> DomNextTodo(dom)],
                   id, TRUE, TRUE)
        /\ dom' = SwapNextTodo(dom, resp'.frags)
        /\ UNCHANGED inflight

ClientToggle ==
    \E k \in 1 .. Len(DomItems(dom)) :
        LET li == DomItems(dom)[k]
        IN /\ PatchTodoReq("s1", li.todo_id,
                           [completed |-> <<ParseBool(li.value)>>, desc |-> <<>>],
                           TRUE, TRUE)
           /\ dom' = SwapTodo(dom, li.todo_id, resp'.frags)
           /\ UNCHANGED inflight

ClientEdit ==
    \E k \in 1 .. Len(DomItems(dom)), desc \in Descs :
        LET li == DomItems(dom)[k]
        IN /\ PatchTodoReq("s1", li.todo_id,
                           [completed |-> <<>>, desc |-> <<desc>>], TRUE, TRUE)
           /\ dom' = SwapTodo(dom, li.todo_id, resp'.frags)
           /\ UNCHANGED inflight

ClientDelete ==
    \E k \in 1 .. Len(DomItems(dom)) :
        LET li == DomItems(dom)[k]
        IN /\ DeleteTodo("s1", li.todo_id, TRUE, TRUE)
           /\ dom' = SwapTodo(dom, li.todo_id, resp'.frags)
           /\ UNCHANGED inflight

ClientToggleAll ==
    /\ dom.todo_list.tag = "main"
    /\ ToggleTodos("s1", TRUE, TRUE)
    /\ dom' = SwapOob(dom, resp'.frags, 1)
    /\ UNCHANGED inflight

ClientSelect ==
    \E value \in {Filter_to_string(f) : f \in Filter} :
        /\ SelectFilter("s1", CHOOSE f \in Filter : Filter_to_string(f) = value,
                        TRUE, TRUE)
        /\ dom' = SwapFooter(dom, resp'.frags)
        /\ UNCHANGED inflight

ClientClear ==
    /\ dom.footer.clear_completed
    /\ ClearCompleted("s1", TRUE, TRUE)
    /\ dom' = SwapFooter(dom, resp'.frags)
    /\ UNCHANGED inflight

ClientReload ==
    /\ Handler("s1", TRUE)
    /\ dom' = PageOf(resp'.frags)
    /\ UNCHANGED inflight

NextClient ==
    \/ ClientAdd
    \/ ClientToggle
    \/ ClientEdit
    \/ ClientDelete
    \/ ClientToggleAll
    \/ ClientSelect
    \/ ClientClear
    \/ ClientReload

SpecClient == Init /\ [][NextClient]_vars

\* ------------------------------------------------------------- SpecFail
\* Spec with a session store whose load and whose save may each fail.
FailAdd == \E new_todo \in NewTodo, id \in Ids, loadOk \in BOOLEAN, saveOk \in BOOLEAN :
               /\ AddTodo("s1", new_todo, id, loadOk, saveOk)
               /\ UNCHANGED <<dom, inflight>>
FailDelete == \E id \in Ids, loadOk \in BOOLEAN, saveOk \in BOOLEAN :
                  /\ DeleteTodo("s1", id, loadOk, saveOk)
                  /\ UNCHANGED <<dom, inflight>>
FailPatch == \E id \in Ids, body \in PatchTodo, loadOk \in BOOLEAN, saveOk \in BOOLEAN :
                 /\ PatchTodoReq("s1", id, body, loadOk, saveOk)
                 /\ UNCHANGED <<dom, inflight>>
FailToggleAll == \E loadOk \in BOOLEAN, saveOk \in BOOLEAN :
                     /\ ToggleTodos("s1", loadOk, saveOk)
                     /\ UNCHANGED <<dom, inflight>>
FailSelect == \E filter \in Filter, loadOk \in BOOLEAN, saveOk \in BOOLEAN :
                  /\ SelectFilter("s1", filter, loadOk, saveOk)
                  /\ UNCHANGED <<dom, inflight>>
FailClear == \E loadOk \in BOOLEAN, saveOk \in BOOLEAN :
                 /\ ClearCompleted("s1", loadOk, saveOk)
                 /\ UNCHANGED <<dom, inflight>>
FailPage == \E loadOk \in BOOLEAN :
                /\ Handler("s1", loadOk)
                /\ UNCHANGED <<dom, inflight>>

NextFail ==
    \/ FailAdd
    \/ FailDelete
    \/ FailPatch
    \/ FailToggleAll
    \/ FailSelect
    \/ FailClear
    \/ FailPage

SpecFail == Init /\ [][NextFail]_vars

\* ------------------------------------------------------------- SpecRace
\* Requests of several sessions in flight together.  A handler awaits the
\* load, then awaits the save; another request may run between the two.
\* Router (main.rs lines 261-266): the handler of a request
Route(name, input, state) ==
    CASE name = "add_todo" -> add_todo(state, input.new_todo, input.id)
      [] name = "delete_todo" -> delete_todo(state, input.id)

\* two ids tell the tasks of two requests apart
RaceIds == {1, 2}

RaceInputs ==
    [handler : {"add_todo"},
     input : [new_todo : [todo : {"a"}, placeholder : {"Extend"}], id : RaceIds]]
    \cup [handler : {"delete_todo"}, input : [id : RaceIds]]


\* a request arrives and its handler runs up to the end of State::read
Begin(r) ==
    \E session \in Sessions, req \in RaceInputs :
        /\ IF inflight[r] = <<>> THEN TRUE ELSE inflight[r][1].pc = "done"
        /\ req.handler = "add_todo" =>
              Len(State_read(store, session, TRUE).todos) < MaxTodos
        /\ inflight' = [inflight EXCEPT ![r] =
              <<[pc |-> "loaded", status |-> "pending",
                 session |-> session, handler |-> req.handler,
                 input |-> req.input,
                 state |-> State_read(store, session, TRUE)]>>]
        /\ UNCHANGED <<store, resp, dom>>

\* the handler runs from its mutation to the end: State::write and the
\* response, which the request's record keeps
Finish(r) ==
    /\ inflight[r] # <<>>
    /\ inflight[r][1].pc = "loaded"
    /\ LET req == inflight[r][1]
           res == Route(req.handler, req.input, req.state)
       IN /\ store' = IF res.write
                      THEN State_write(store, req.session, res.state)
                      ELSE store
          /\ inflight' = [inflight EXCEPT ![r] =
                <<[req EXCEPT !.pc = "done", !.status = "ok"]>>]
    /\ UNCHANGED <<dom, resp>>

NextRace ==
    \/ \E r \in Requests : Begin(r)
    \/ \E r \in Requests : Finish(r)

SpecRace == Init /\ [][NextRace]_vars

\* ------------------------------------------------------------- claims
IdsOf(todos) == [i \in 1 .. Len(todos) |-> todos[i].id]
DomIds(d) == [i \in 1 .. Len(DomItems(d)) |-> DomItems(d)[i].todo_id]

\* C1: after any sequence of requests of one client that applies every
\* response, the footer on the page shows the number of active tasks, the
\* clear-completed control (shown iff some task is completed) and the selected
\* filter of the stored session state: no request that changes them leaves
\* the footer out of its response.
C1_FooterShowsStoredState ==
    LET footer == Footer_from(Loaded("s1"))
    IN /\ dom.footer.todo_count = footer.num_active
       /\ dom.footer.clear_completed = (footer.num_completed > 0)
       /\ dom.footer.selected = {Filter_to_string(footer.current_filter)}

\* C2: after any sequence of requests of one client that applies every
\* response, the ids of the tasks on the page, in order, are the ids of the
\* tasks visible in the stored state under the stored filter.
C2_PageShowsVisibleTasks ==
    DomIds(dom) = IdsOf(List_from(Loaded("s1")).todos)

\* C7: an add_todo handled while the stored task collection is empty leaves
\* exactly one stored task, not completed, with the submitted description;
\* the first fragment of its response is the whole list without the
\* out-of-band flag, and the response carries a footer with one item left
\* and nothing completed.  Stated for the default filter All, the filter of
\* the scenario the claim comes from.
C7_AddToEmpty ==
    [][(/\ resp'.handler = "add_todo"
        /\ Loaded("s1").todos = <<>>
        /\ Loaded("s1").filter = "All") =>
          /\ Len(Loaded("s1")'.todos) = 1
          /\ Loaded("s1")'.todos[1].completed = FALSE
          /\ Loaded("s1")'.todos[1].description = resp'.input.new_todo.todo
          /\ resp'.frags # <<>>
          /\ resp'.frags[1].tag = "main"
          /\ ~resp'.frags[1].oob
          /\ \E i \in 1 .. Len(resp'.frags) :
                /\ resp'.frags[i].tag = "footer"
                /\ resp'.frags[i].todo_count = 1
                /\ ~resp'.frags[i].clear_completed]_vars

Distinct(seq) == \A i, j \in 1 .. Len(seq) : i # j => seq[i] # seq[j]

RECURSIVE IsSubSeq(_, _)
\* sub is seq with some elements left out
IsSubSeq(sub, seq) ==
    IF sub = <<>> THEN TRUE
    ELSE IF seq = <<>> THEN FALSE
    ELSE IF Head(sub) = Head(seq) THEN IsSubSeq(Tail(sub), Tail(seq))
    ELSE IsSubSeq(sub, Tail(seq))

\* C3: in every state reached by add_todo, delete_todo, patch_todo,
\* toggle_todos and clear_completed, no two stored tasks share an id, and
\* every step keeps the ids of the tasks that survive it: the ids stored
\* after a step are ids stored before it, in their order, followed by the id
\* of the task add_todo appended, which no stored task carried.
C3_IdsUniqueAndStable ==
    [][LET before == IdsOf(Loaded("s1").todos)
           after == IdsOf(Loaded("s1")'.todos)
       IN /\ Distinct(after)
          /\ IF resp'.handler = "add_todo"
             THEN /\ SubSeq(after, 1, Len(after) - 1) = before
                  /\ \A i \in 1 .. Len(before) : before[i] # after[Len(after)]
             ELSE IsSubSeq(after, before)]_vars

\* C4: a request during which the load or the save of the session fails ends
\* in an error without fragments and leaves the stored session as it was;
\* stated for a session that holds tasks, the ones a failed load taken for an
\* empty session would wipe.
C4_StoreFailureKeepsState ==
    [][(/\ resp'.load_failed \/ resp'.save_failed
        /\ Loaded("s1").todos # <<>>) =>
          /\ resp'.status = "panic"
          /\ resp'.frags = <<>>
          /\ store' = store]_vars

\* C5: the all_completed flag of List::from is true exactly when the stored
\* task collection is non-empty and every task in it is completed.
C5_AllCompletedFlag ==
    LET state == Loaded("s1")
    IN List_from(state).all_completed
          = (/\ state.todos # <<>>
             /\ \A i \in 1 .. Len(state.todos) : state.todos[i].completed)

\* C6: List::render yields the FullPayload placeholder exactly when the
\* stored task collection (not the filtered one) is empty; otherwise it
\* yields the list element with the toggle-all control, the visible tasks
\* and a trailing Extend placeholder.
C6_PlaceholderIffNoTasks ==
    LET state == Loaded("s1")
        rendered == List_render(List_from(state))
    IN IF state.todos = <<>>
       THEN rendered = TodoPlaceholder_render("FullPayload")
       ELSE /\ Len(rendered) = 1
            /\ rendered[1].tag = "main"
            /\ rendered[1].children =
                  RenderTodos(List_from(state).todos, 1)
                  \o TodoPlaceholder_render("Extend")

\* C8: a request with an empty description (add_todo with todo = "",
\* patch_todo with desc = "") changes nothing in the store, and no stored task
\* ever has the empty description.
C8_EmptyDescriptionRejected ==
    [][/\ (\/ /\ resp'.handler = "add_todo"
              /\ resp'.input.new_todo.todo = ""
           \/ /\ resp'.handler = "patch_todo"
              /\ resp'.input.body.desc = <<"">>) => store' = store
       /\ \A i \in 1 .. Len(Loaded("s1")'.todos) :
             Loaded("s1")'.todos[i].description # ""]_vars

\* A Toggle-one request: patch_todo with a completed field and no desc field,
\* for an id some stored task carries
IsToggleOne(r, todos) ==
    /\ r.handler = "patch_todo"
    /\ r.input.body.completed # <<>>
    /\ r.input.body.desc = <<>>
    /\ find(todos, r.input.id) # 0

\* C9 as claimed: a Toggle-one request stores the negation of the flag that
\* was stored before it, whatever boolean is posted, and changes nothing else.
C9_ToggleFlipsStored ==
    [][IsToggleOne(resp', Loaded("s1").todos) =>
          LET state == Loaded("s1")
              i == find(state.todos, resp'.input.id)
          IN Loaded("s1")' =
                [state EXCEPT !.todos[i].completed = ~state.todos[i].completed]]_vars

\* C9 as amended: a Toggle-one request stores the negation of the posted
\* boolean in the first task of that id and changes nothing else; the stored
\* flag is flipped exactly when the posted boolean is the stored one.
C9_ToggleNegatesPosted ==
    [][IsToggleOne(resp', Loaded("s1").todos) =>
          LET state == Loaded("s1")
              i == find(state.todos, resp'.input.id)
              posted == resp'.input.body.completed[1]
          IN /\ Loaded("s1")' = [state EXCEPT !.todos[i].completed = ~posted]
             /\ (Loaded("s1")'.todos[i].completed = ~state.todos[i].completed)
                   <=> (posted = state.todos[i].completed)]_vars

\* C9 witness: a Toggle-one request was served for a present id with the
\* posted boolean TRUE, and the stored flag is now FALSE
C9_Witness ==
    /\ resp.handler = "patch_todo"
    /\ resp.input.body = [completed |-> <<TRUE>>, desc |-> <<>>]
    /\ resp.frags # <<>>
    /\ \E i \in 1 .. Len(Loaded("s1").todos) :
          /\ Loaded("s1").todos[i].id = resp.input.id
          /\ ~Loaded("s1").todos[i].completed

\* C10: requests interleave at the store.  A save replaces the record of the
\* saving request's session, and of no other session, by the mutated copy of
\* the state that request loaded, whatever was saved since (last write wins);
\* a load reads the record of the request's own session.
C10_LastWriteWins ==
    [][/\ \A s \in Sessions :
             store'[s] # store[s] =>
                \E r \in Requests :
                   /\ inflight[r] # <<>>
                   /\ inflight[r][1].pc = "loaded"
                   /\ inflight[r][1].session = s
                   /\ inflight'[r][1].pc = "done"
                   /\ store'[s] = <<Route(inflight[r][1].handler,
                                          inflight[r][1].input,
                                          inflight[r][1].state).state>>
       /\ \A r \in Requests :
             (inflight'[r] # inflight[r] /\ inflight'[r][1].pc = "loaded") =>
                inflight'[r][1].state =
                   State_read(store, inflight'[r][1].session, TRUE)]_vars

\* C10 witness: two add_todo requests of one session both loaded the empty
\* collection and both were answered, and one task is stored: an update is lost
C10_Witness ==
    \E s \in Sessions :
        /\ \A r \in Requests :
              /\ inflight[r] # <<>>
              /\ inflight[r][1].pc = "done"
              /\ inflight[r][1].status = "ok"
              /\ inflight[r][1].handler = "add_todo"
              /\ inflight[r][1].session = s
              /\ inflight[r][1].state.todos = <<>>
        /\ store[s] # <<>>
        /\ Len(store[s][1].todos) = 1


\* ---------------------------------------------------------------- C11
\* the number of positions of todos whose completed flag equals flag
CountFlag(todos, flag) ==
    Cardinality({i \in 1 .. Len(todos) : todos[i].completed = flag})

\* the footer fragments of a response
FootersOf(frags) ==
    {i \in 1 .. Len(frags) : frags[i].tag = "footer"}

\* C11: every footer fragment of a response shows the number of stored tasks
\* with completed = false, counted over the whole stored list after the
\* handler's mutation whatever filter is selected, and offers clear-completed
\* exactly when the number of stored tasks with completed = true is positive;
\* the two counts of the Footer add up to the number of stored tasks.
C11_FooterCountsWholeList ==
    LET state == Loaded("s1")
        footer == Footer_from(state)
    IN /\ \A i \in FootersOf(resp.frags) :
            /\ resp.frags[i].todo_count = CountFlag(state.todos, FALSE)
            /\ resp.frags[i].clear_completed = (CountFlag(state.todos, TRUE) > 0)
       /\ footer.num_active = CountFlag(state.todos, FALSE)
       /\ footer.num_completed = CountFlag(state.todos, TRUE)
       /\ footer.num_active + footer.num_completed = Len(state.todos)

\* a response with a footer while a filter hides one of an active and a
\* completed stored task
C11_Witness ==
    /\ FootersOf(resp.frags) # {}
    /\ resp.status = "ok"
    /\ Loaded("s1").filter = "Completed"
    /\ CountFlag(Loaded("s1").todos, FALSE) > 0
    /\ CountFlag(Loaded("s1").todos, TRUE) > 0


\* ---------------------------------------------------------------- C12
\* shown holds, in the order of todos, exactly the tasks of todos whose
\* completed flag equals flag
IsSelection(shown, todos, flag) ==
    /\ IsSubSeq(shown, todos)
    /\ \A i \in 1 .. Len(shown) : shown[i].completed = flag
    /\ Len(shown) = CountFlag(todos, flag)

\* C12: the tasks List::from puts in the list are the whole stored sequence
\* under the filter All, whatever filters were selected before, exactly the
\* tasks with completed = false under Active and exactly the tasks with
\* completed = true under Completed, in the stored relative order.
C12_FilterSelectsByFlag ==
    LET state == Loaded("s1")
        shown == List_from(state).todos
    IN /\ state.filter = "All" => shown = state.todos
       /\ state.filter = "Active" => IsSelection(shown, state.todos, FALSE)
       /\ state.filter = "Completed" => IsSelection(shown, state.todos, TRUE)

\* the Active filter has just been selected over an active and a completed
\* task and the response carries the list
C12_Witness ==
    /\ resp.handler = "select_filter"
    /\ resp.status = "ok"
    /\ \E i \in 1 .. Len(resp.frags) : resp.frags[i].tag = "main"
    /\ Loaded("s1").filter = "Active"
    /\ CountFlag(Loaded("s1").todos, FALSE) > 0
    /\ CountFlag(Loaded("s1").todos, TRUE) > 0


\* ---------------------------------------------------------------- C13
\* the state the session holds after the step
LoadedNext(session) == State_read(store', session, TRUE)

\* C13: a toggle-all request sets every stored task to completed when some
\* task was not completed and sets every task to not completed when all
\* were; ids, descriptions, order and the filter stay as they were, and a
\* second toggle-all directly after one that completed every task leaves
\* every task not completed.
C13_ToggleAllSetsEvery ==
    [][resp'.handler = "toggle_todos" =>
        LET before == Loaded("s1").todos
            after == LoadedNext("s1").todos
            all_before == CountFlag(before, FALSE) = 0
        IN /\ LoadedNext("s1").filter = Loaded("s1").filter
           /\ Len(after) = Len(before)
           /\ \A i \in 1 .. Len(before) :
                 /\ after[i].id = before[i].id
                 /\ after[i].description = before[i].description
                 /\ after[i].completed = ~all_before
           /\ (resp.handler = "toggle_todos" /\ all_before)
                 => CountFlag(after, TRUE) = 0]_vars

\* a toggle-all has completed each of two stored tasks while a filter other
\* than All is selected
C13_Witness ==
    /\ resp.handler = "toggle_todos"
    /\ resp.status = "ok"
    /\ Len(Loaded("s1").todos) = 2
    /\ CountFlag(Loaded("s1").todos, FALSE) = 0
    /\ Loaded("s1").filter # "All"


\* ---------------------------------------------------------------- C14
\* C14: after a clear-completed request the stored sequence is exactly the
\* tasks that had completed = false, in their order and with their ids and
\* descriptions; the filter is unchanged, the footer counts no completed
\* task and the response offers no clear-completed control.
C14_ClearKeepsActive ==
    [][resp'.handler = "clear_completed" =>
        LET before == Loaded("s1")
            after == LoadedNext("s1")
        IN /\ IsSelection(after.todos, before.todos, FALSE)
           /\ after.filter = before.filter
           /\ Footer_from(after).num_completed = 0
           /\ FootersOf(resp'.frags) # {}
           /\ \A i \in FootersOf(resp'.frags) :
                 ~resp'.frags[i].clear_completed]_vars

\* a clear-completed request has been answered and a task is still stored
C14_Witness ==
    /\ resp.handler = "clear_completed"
    /\ resp.status = "ok"
    /\ FootersOf(resp.frags) # {}
    /\ Loaded("s1").todos # <<>>
    /\ Loaded("s1").filter = "Completed"


\* ---------------------------------------------------------------- C15
\* the tasks a response shows as list items, in the order of the response
ShownTasks(frags) ==
    LET mains == SelectSeq(frags, LAMBDA f : f.tag = "main")
        lis == IF mains = <<>> THEN <<>>
               ELSE SelectSeq(mains[1].children, LAMBDA f : f.tag = "li")
    IN [i \in 1 .. Len(lis) |->
           [completed |-> lis[i].class_completed,
            description |-> lis[i].description,
            id |-> lis[i].todo_id]]

\* C15: a select-filter request stores the submitted filter and nothing
\* else: the tasks are as before, the footer of the response shows the counts
\* of before and marks exactly the submitted filter, and the list of the
\* response holds exactly the tasks visible under the submitted filter.
C15_SelectChangesOnlyFilter ==
    [][resp'.handler = "select_filter" =>
        LET before == Loaded("s1")
            after == LoadedNext("s1")
            filter == resp'.input.filter
            shown == ShownTasks(resp'.frags)
        IN /\ after.todos = before.todos
           /\ after.filter = filter
           /\ FootersOf(resp'.frags) # {}
           /\ \A i \in FootersOf(resp'.frags) :
                 /\ resp'.frags[i].todo_count = CountFlag(before.todos, FALSE)
                 /\ resp'.frags[i].clear_completed = (CountFlag(before.todos, TRUE) > 0)
                 /\ resp'.frags[i].selected =
                       {IF filter = "All" THEN "All"
                        ELSE IF filter = "Active" THEN "Active" ELSE "Completed"}
           /\ filter = "All" => shown = before.todos
           /\ filter = "Active" => IsSelection(shown, before.todos, FALSE)
           /\ filter = "Completed" => IsSelection(shown, before.todos, TRUE)]_vars

\* the Completed filter has just been selected over an active and a
\* completed task: the response shows one of the two stored tasks
C15_Witness ==
    /\ resp.handler = "select_filter"
    /\ resp.status = "ok"
    /\ resp.input.filter = "Completed"
    /\ Len(Loaded("s1").todos) = 2
    /\ Len(ShownTasks(resp.frags)) = 1


\* ---------------------------------------------------------------- C16
\* C16: an add request puts exactly one task, not completed and with the
\* submitted description, behind the stored ones and leaves those and the
\* filter as they were; a patch or toggle-all request keeps every task at its
\* position; a delete or clear-completed request leaves the remaining tasks
\* in their relative order.  Stored order is therefore creation order.
C16_OrderIsCreationOrder ==
    [][LET before == Loaded("s1")
           after == LoadedNext("s1")
       IN /\ resp'.handler = "add_todo" =>
                /\ Len(after.todos) = Len(before.todos) + 1
                /\ SubSeq(after.todos, 1, Len(before.todos)) = before.todos
                /\ after.todos[Len(after.todos)] =
                      [completed |-> FALSE,
                       description |-> resp'.input.new_todo.todo,
                       id |-> resp'.input.id]
                /\ after.filter = before.filter
          /\ resp'.handler \in {"patch_todo", "toggle_todos"} =>
                IdsOf(after.todos) = IdsOf(before.todos)
          /\ resp'.handler \in {"delete_todo", "clear_completed"} =>
                IsSubSeq(after.todos, before.todos)]_vars

\* an add request has put its task behind a completed one
C16_Witness ==
    /\ resp.handler = "add_todo"
    /\ resp.status = "ok"
    /\ Len(Loaded("s1").todos) = 2
    /\ Loaded("s1").todos[1].completed
    /\ Loaded("s1").todos[1].id # resp.input.id
    /\ Loaded("s1").todos[2].id = resp.input.id
    /\ ~Loaded("s1").todos[2].completed


\* ---------------------------------------------------------------- C17
\* todos without the task at position i
RemoveAt(todos, i) ==
    SubSeq(todos, 1, i - 1) \o SubSeq(todos, i + 1, Len(todos))

\* C17: a delete request for an id no stored task carries leaves the tasks
\* and the filter as they were and is answered normally with the footer alone;
\* a delete request for an id a stored task carries removes exactly that one
\* task; deleting the same id a second time changes nothing more.
C17_DeleteRemovesThatTask ==
    [][resp'.handler = "delete_todo" =>
        LET before == Loaded("s1")
            after == LoadedNext("s1")
            id == resp'.input.id
            i == find(before.todos, id)
        IN /\ resp'.status = "ok"
           /\ Len(resp'.frags) = 1
           /\ FootersOf(resp'.frags) = {1}
           /\ after.filter = before.filter
           /\ i = 0 => after.todos = before.todos
           /\ i # 0 => after.todos = RemoveAt(before.todos, i)
           /\ delete_todo(after, id).state = after]_vars


\* ---------------------------------------------------------------- C18
\* C18: a patch request, toggle or edit, for an id no stored task carries is
\* answered with an empty body and saves nothing: the store holds what it
\* held, and a session never saved stays unsaved.
C18_PatchAbsentIsNoOp ==
    [][(/\ resp'.handler = "patch_todo"
        /\ find(Loaded("s1").todos, resp'.input.id) = 0)
          => /\ resp'.frags = <<>>
             /\ resp'.status = "ok"
             /\ store' = store]_vars

\* a patch request for an id no stored task carries has been answered with
\* an empty body while a task is stored
C18_Witness ==
    /\ resp.handler = "patch_todo"
    /\ resp.status = "ok"
    /\ resp.frags = <<>>
    /\ Loaded("s1").todos # <<>>
    /\ find(Loaded("s1").todos, resp.input.id) = 0


\* ------------------------------------------------- the steps of a request
\* One request at a time, taken apart into the steps its handler performs in
\* source order: State::read, the mutation of the local copy, State::write
\* and the rendering of the response.  The request's record keeps the steps
\* performed so far in log and the steps still to come in rest.
StepRequest == "r1"

\* the handler a route names, applied to the state it loaded
Dispatch(name, input, state) ==
    CASE name = "add_todo" -> add_todo(state, input.new_todo, input.id)
      [] name = "delete_todo" -> delete_todo(state, input.id)
      [] name = "patch_todo" -> patch_todo(state, input.id, input.body)
      [] name = "toggle_todos" -> toggle_todos(state)
      [] name = "select_filter" -> select_filter(state, input.filter)
      [] name = "clear_completed" -> clear_completed(state)
      [] name = "handler" -> handler(state)

StepInputs ==
    [handler : {"add_todo"},
     input : [new_todo : [todo : {"a"}, placeholder : {"Extend", "FullPayload"}],
              id : Ids]]
    \cup [handler : {"delete_todo"}, input : [id : Ids]]
    \cup [handler : {"patch_todo"},
          input : [id : Ids,
                   body : {[completed |-> <<TRUE>>, desc |-> <<>>],
                           [completed |-> <<FALSE>>, desc |-> <<>>]}]]
    \cup [handler : {"select_filter"}, input : [filter : Filter]]
    \cup [handler : {"toggle_todos", "clear_completed", "handler"},
          input : {[none |-> TRUE]}]

\* a handler that saves the state it loaded, mutates it and saves again, the
\* fault C19_OneSaveAfterLoad excludes
Body_save_twice(name, input, state) ==
    CASE name \in {"add_todo", "toggle_todos", "select_filter", "clear_completed"} ->
            <<"write", "mutate", "write", "render">>
      [] name = "delete_todo" -> <<"mutate", "render", "write">>
      [] name = "patch_todo" ->
            IF find(state.todos, input.id) # 0
            THEN <<"mutate", "render", "write">>
            ELSE <<"render">>
      [] name = "handler" -> <<"render">>

\* the steps of a handler behind its State::read, in source order; state is
\* what State::read returned
Body(name, input, state) ==
    CASE name \in {"add_todo", "toggle_todos", "select_filter", "clear_completed"} ->
            <<"mutate", "write", "render">>
      [] name = "delete_todo" -> <<"mutate", "render", "write">>
      [] name = "patch_todo" ->
            IF find(state.todos, input.id) # 0
            THEN <<"mutate", "render", "write">>
            ELSE <<"render">>
      [] name = "handler" -> <<"render">>

\* the request's record with step done and the steps to come set to rest
Stepped(req, step, rest) ==
    [req EXCEPT !.log = Append(@, step), !.rest = rest]

Running(r) ==
    IF inflight[r] = <<>> THEN FALSE ELSE inflight[r][1].pc = "running"

NextStep(r) ==
    IF Running(r) /\ inflight[r][1].rest # <<>>
    THEN Head(inflight[r][1].rest) ELSE "none"

\* a request arrives: every handler starts with State::read
StepBegin ==
    \E req \in StepInputs :
        /\ ~Running(StepRequest)
        /\ req.handler = "add_todo" => Len(Loaded("s1").todos) < MaxTodos
        /\ inflight' = [inflight EXCEPT ![StepRequest] =
              <<[pc |-> "running", session |-> "s1",
                 handler |-> req.handler, input |-> req.input,
                 state |-> <<>>, res |-> <<>>, frags |-> <<>>,
                 log |-> <<>>, rest |-> <<"read">>]>>]
        /\ UNCHANGED <<store, resp, dom>>

\* State::read: the local copy, and with it the branch the handler takes
StepRead ==
    /\ NextStep(StepRequest) = "read"
    /\ LET req == inflight[StepRequest][1]
           state == State_read(store, req.session, TRUE)
           read == [req EXCEPT !.state = <<state>>,
                               !.res = <<Dispatch(req.handler, req.input, state)>>]
       IN inflight' = [inflight EXCEPT ![StepRequest] =
             <<Stepped(read, "read",
                       IF req.log = <<>>
                       THEN Body(req.handler, req.input, state)
                       ELSE Tail(req.rest))>>]
    /\ UNCHANGED <<store, resp, dom>>

\* the handler's assignments to its local copy
StepMutate ==
    /\ NextStep(StepRequest) = "mutate"
    /\ LET req == inflight[StepRequest][1]
       IN inflight' = [inflight EXCEPT ![StepRequest] =
             <<Stepped([req EXCEPT !.state = <<req.res[1].state>>],
                       "mutate", Tail(req.rest))>>]
    /\ UNCHANGED <<store, resp, dom>>

\* State::write of the local copy
StepWrite ==
    /\ NextStep(StepRequest) = "write"
    /\ LET req == inflight[StepRequest][1]
       IN /\ store' = State_write(store, req.session, req.state[1])
          /\ inflight' = [inflight EXCEPT ![StepRequest] =
                <<Stepped(req, "write", Tail(req.rest))>>]
    /\ UNCHANGED <<resp, dom>>

\* html!: the fragments of the response
StepRender ==
    /\ NextStep(StepRequest) = "render"
    /\ LET req == inflight[StepRequest][1]
       IN inflight' = [inflight EXCEPT ![StepRequest] =
             <<Stepped([req EXCEPT !.frags = req.res[1].frags],
                       "render", Tail(req.rest))>>]
    /\ UNCHANGED <<store, resp, dom>>

\* the handler returns
StepEnd ==
    /\ Running(StepRequest)
    /\ inflight[StepRequest][1].rest = <<>>
    /\ inflight' = [inflight EXCEPT ![StepRequest] =
          <<[inflight[StepRequest][1] EXCEPT !.pc = "done"]>>]
    /\ UNCHANGED <<store, resp, dom>>

NextSteps ==
    \/ StepBegin
    \/ StepRead
    \/ StepMutate
    \/ StepWrite
    \/ StepRender
    \/ StepEnd

SpecSteps == Init /\ [][NextSteps]_vars


\* ---------------------------------------------------------------- C19
\* the positions of log at which step was performed
Positions(log, step) == {i \in 1 .. Len(log) : log[i] = step}

\* C19: a request performs at most one save of the session state; the save
\* comes after the request's single load, which is its first step, and after
\* every mutation, so no load follows the save; the page-load handler
\* performs no save.
C19_OneSaveAfterLoad ==
    inflight[StepRequest] # <<>> =>
        LET req == inflight[StepRequest][1]
            reads == Positions(req.log, "read")
            mutates == Positions(req.log, "mutate")
            writes == Positions(req.log, "write")
        IN /\ Cardinality(writes) <= 1
           /\ Cardinality(reads) <= 1
           /\ req.log # <<>> => req.log[1] = "read"
           /\ \A w \in writes : \A i \in reads \cup mutates : i < w
           /\ req.handler = "handler" => writes = {}

\* a toggle request has ended after its load, its mutation, the rendering
\* of its response and its save, and the store holds the toggled task
C19_Witness ==
    /\ inflight[StepRequest] # <<>>
    /\ inflight[StepRequest][1].pc = "done"
    /\ inflight[StepRequest][1].handler = "patch_todo"
    /\ inflight[StepRequest][1].log = <<"read", "mutate", "render", "write">>
    /\ store["s1"] = inflight[StepRequest][1].state
    /\ CountFlag(Loaded("s1").todos, TRUE) > 0


MainsOf(frags) ==
    {i \in 1 .. Len(frags) : frags[i].tag = "main"}

\* C21: whenever a response holds the toggle-all control, the control
\* carries the checked attribute exactly when the stored task collection is
\* non-empty and every stored task is completed; with a task that is not
\* completed the attribute is absent, as it is on that task's own checkbox.
C21_ToggleAllCheckedIffAllCompleted ==
    LET todos == Loaded("s1").todos
    IN \A i \in MainsOf(resp.frags) :
          (resp.frags[i].toggle_all_checked # <<>>)
             = (todos # <<>> /\ CountFlag(todos, FALSE) = 0)

=============================================================================
